---- MODULE Spec2Model ----
(***************************************************************************)
(* POST /verifyOwnership of genge-api: the handler of src/index.js and its *)
(* variants in src/unnamed/part_000 and src/unnamed/part_001.  part_000    *)
(* holds two servers: lines 1-223 are the handler of index.js without its  *)
(* debug logging (variant "index.js" stands for both), lines 225-347 are   *)
(* the serverless handler (variant "part_000").  One server process runs   *)
(* one variant; its only state shared between requests is the replay set   *)
(* usedTxs.  A request is an async function: the code between two awaits   *)
(* runs atomically, so there is one action per await that resumes.         *)
(***************************************************************************)
EXTENDS Integers, Sequences, FiniteSets

\* ------------------------------------------------------------- bounds
MaxInFlight == 2    \* request slots of the server
MaxRequests == 3    \* requests received in one behaviour
MaxLogs == 2        \* logs in one receipt

\* ------------------------------------------------------ JavaScript values
\* A JSON value of the request body, or undefined for an absent field.
Undef == [t |-> "undefined", s |-> <<>>, n |-> 0]
Null == [t |-> "null", s |-> <<>>, n |-> 0]
Str(chars) == [t |-> "string", s |-> chars, n |-> 0]
Num(k) == [t |-> "number", s |-> <<>>, n |-> k]

\* !v of JavaScript
Falsy(v) ==
  \/ v.t = "undefined"
  \/ v.t = "null"
  \/ v.t = "string" /\ v.s = <<>>
  \/ v.t = "number" /\ v.n = 0

Digit(d) == <<"0", "1", "2", "3", "4", "5", "6", "7", "8", "9">>[d + 1]

\* BigInt.prototype.toString / Number.prototype.toString of a natural number
RECURSIVE DecStr(_)
DecStr(k) == IF k < 10 THEN <<Digit(k)>> ELSE DecStr(k \div 10) \o <<Digit(k % 10)>>

\* tokenId.toString() throws a TypeError on null
CanToString(v) == v.t \in {"string", "number"}
ToString(v) == IF v.t = "number" THEN DecStr(v.n) ELSE v.s

LowerChar(c) ==
  CASE c = "A" -> "a" [] c = "B" -> "b" [] c = "C" -> "c" [] c = "D" -> "d"
    [] c = "E" -> "e" [] c = "F" -> "f" [] c = "T" -> "t" [] OTHER -> c

toLowerCaseId(chars) == chars
\* String.prototype.toLowerCase
toLowerCase(chars) == [i \in 1..Len(chars) |-> LowerChar(chars[i])]

\* truthiness of the three evidence values: true, false or the BigInt 0n
Truthy(b) == b = "true"
\* a || b
JsOr(a, b) == IF Truthy(a) THEN a ELSE b
\* JSON.stringify throws a TypeError on a BigInt
Serializable(b) == b # "0n"

\* --------------------------------------------------------- configuration
\* process.env.CONTRACT_ADDRESS
CONTRACT_ADDRESS == <<"0", "x", "C">>

Variants == {"index.js", "part_000", "part_001"}
\* the handler with the receipt status test, all three events and ownerOf
Full(v) == v = "index.js"

\* ------------------------------------------------------------- event logs
AddrArg(a) == [k |-> "address", a |-> a, n |-> 0, l |-> <<>>]
UintArg(k) == [k |-> "uint256", a |-> <<>>, n |-> k, l |-> <<>>]
ArrArg(l) == [k |-> "uint256[]", a |-> <<>>, n |-> 0, l |-> l]
OutOfRange == [k |-> "RangeError", a |-> <<>>, n |-> 0, l |-> <<>>]

\* parsed.args[i] (0-based): ethers' Result throws on an index out of range
Arg(args, i) == IF i + 1 <= Len(args) THEN args[i + 1] ELSE OutOfRange

\* a log of a receipt: the emitting address, and what the two interfaces
\* decode it to (name "" when neither event list has the log's topic)
Log(addr, name, args) == [address |-> addr, name |-> name, args |-> args]

A_lower == <<"0", "x", "a">>
A_upper == <<"0", "x", "A">>
B_addr == <<"0", "x", "B">>
Op_addr == <<"0", "x", "e">>
Zero_addr == <<"0", "x", "0">>
C_lower == <<"0", "x", "c">>
D_addr == <<"0", "x", "d">>

Transfer(addr, to, tid) ==
  Log(addr, "Transfer", <<AddrArg(Zero_addr), AddrArg(to), UintArg(tid)>>)
TransferSingle(addr, to, id, value) ==
  Log(addr, "TransferSingle",
      <<AddrArg(Op_addr), AddrArg(Zero_addr), AddrArg(to), UintArg(id), UintArg(value)>>)
TransferBatch(addr, to, ids, values) ==
  Log(addr, "TransferBatch",
      <<AddrArg(Op_addr), AddrArg(Zero_addr), AddrArg(to), ArrArg(ids), ArrArg(values)>>)

LogUniverse ==
  {Transfer(C_lower, A_lower, 12), Transfer(C_lower, B_addr, 12),
   Transfer(D_addr, A_lower, 12),
   TransferSingle(C_lower, A_lower, 12, 3),
   TransferBatch(C_lower, A_lower, <<7, 12>>, <<0, 3>>),
   TransferBatch(C_lower, A_lower, <<7, 12>>, <<3, 0>>),
   Log(C_lower, "", <<>>)}

LogSeqs == UNION {[1..k -> LogUniverse] : k \in 0..MaxLogs}

\* ------------------------------------------------- transfer-log matching
\* the three `continue` guards at the head of the loop body
FromContract(log) ==
  /\ log.address # <<>>
  /\ toLowerCase(log.address) = toLowerCase(CONTRACT_ADDRESS)

\* ERC721_IFACE.parseLog(log) then the Transfer test; a throw inside the try
\* (parseLog, tokenId.toString() on null) is caught and leaves no match
Match721(log, wallet, tokenId) ==
  /\ log.name = "Transfer"
  /\ LET to == Arg(log.args, 1)
         tid == Arg(log.args, 2)
     IN /\ to.k = "address" /\ tid.k = "uint256"
        /\ CanToString(tokenId)
        /\ DecStr(tid.n) = ToString(tokenId)
        /\ wallet.t = "string"
        /\ toLowerCase(to.a) = toLowerCase(wallet.s)

\* ERC1155_IFACE.parseLog(log) then the TransferSingle test, which reads
\* args[3], args[4], args[5] as to, id, value
MatchSingle(log, wallet, tokenId) ==
  /\ log.name = "TransferSingle"
  /\ LET to == Arg(log.args, 3)
         id == Arg(log.args, 4)
         value == Arg(log.args, 5)
     IN /\ id.k = "uint256"
        /\ value.k = "uint256"
        /\ CanToString(tokenId)
        /\ DecStr(id.n) = ToString(tokenId)
        /\ to.k = "address" /\ wallet.t = "string"
        /\ toLowerCase(to.a) = toLowerCase(wallet.s)
        /\ DecStr(value.n) # <<"0">>

\* ids.indexOf(x): 0-based index of the first occurrence, -1 when absent
IndexOf(strs, x) ==
  IF \E i \in 1..Len(strs) : strs[i] = x
  THEN (CHOOSE i \in 1..Len(strs) : strs[i] = x /\ \A j \in 1..(i - 1) : strs[j] # x) - 1
  ELSE 0 - 1

\* the TransferBatch test, which reads args[3], args[4], args[5] as to, ids,
\* values; values[idx] past the end is undefined, which differs from "0"
MatchBatch(log, wallet, tokenId) ==
  /\ log.name = "TransferBatch"
  /\ LET to == Arg(log.args, 3)
         ids == Arg(log.args, 4)
         values == Arg(log.args, 5)
     IN /\ ids.k = "uint256[]"
        /\ values.k = "uint256[]"
        /\ CanToString(tokenId)
        /\ LET idstrs == [i \in 1..Len(ids.l) |-> DecStr(ids.l[i])]
               idx == IndexOf(idstrs, ToString(tokenId))
           IN /\ idx # 0 - 1
              /\ to.k = "address" /\ wallet.t = "string"
              /\ toLowerCase(to.a) = toLowerCase(wallet.s)
              /\ \/ idx + 1 > Len(values.l)
                 \/ DecStr(values.l[idx + 1]) # <<"0">>

\* one iteration of the loop of index.js / part_000 (first server)
LogMatches(log, wallet, tokenId) ==
  /\ FromContract(log)
  /\ \/ Match721(log, wallet, tokenId)
     \/ MatchSingle(log, wallet, tokenId)
     \/ MatchBatch(log, wallet, tokenId)

\* one iteration of the loop of part_000 (second server): Transfer and
\* TransferSingle only, the latter reading args[3], args[4], args[5]
LogMatchesB(log, wallet, tokenId) ==
  /\ FromContract(log)
  /\ \/ Match721(log, wallet, tokenId)
     \/ MatchSingle(log, wallet, tokenId)

\* for (const log of receipt.logs) { ... break; }: the 1-based position of
\* the log the loop breaks at, 0 when it runs to the end
RECURSIVE ScanFrom(_, _, _, _, _)
ScanFrom(variant, logs, i, wallet, tokenId) ==
  IF i > Len(logs) THEN 0
  ELSE IF (IF Full(variant) THEN LogMatches(logs[i], wallet, tokenId)
                            ELSE LogMatchesB(logs[i], wallet, tokenId))
       THEN i
       ELSE ScanFrom(variant, logs, i + 1, wallet, tokenId)

ScanLogs(variant, logs, wallet, tokenId) == ScanFrom(variant, logs, 1, wallet, tokenId)

\* ------------------------------------------------------------------ state
VARIABLES
  variant,   \* which server file the process runs
  usedTxs,   \* const usedTxs = new Set()
  req,       \* per slot: the request in it, its locals and its response
  nreq,      \* requests received so far
  granted,   \* history: the txHash values answered 200
  denied     \* history: the txHash values answered 402

vars == <<variant, usedTxs, req, nreq, granted, denied>>

Slots == 1..MaxInFlight

\* the fields a request body may carry
Wallets == {Undef, Str(<<>>), Str(A_upper)}
TokenIds == {Undef, Str(<<>>), Num(12), Str(<<"1", "2">>)}
TxHashes == {Undef, Str(<<>>), Str(<<"0", "x", "T">>), Str(<<"0", "x", "t">>)}
\* req.body: the bodies in which at most one field is absent or empty, and {}
Bodies ==
  {b \in [wallet : Wallets, tokenId : TokenIds, txHash : TxHashes] :
     \/ Cardinality({f \in {"wallet", "tokenId", "txHash"} : Falsy(b[f])}) <= 1
     \/ b.wallet = Undef /\ b.tokenId = Undef /\ b.txHash = Undef}

\* what the collaborators can answer
FacilitatorResults == {"success:true", "success:false", "success:'true'", "throw"}
BalanceResults == {[ok |-> TRUE, v |-> 0], [ok |-> TRUE, v |-> 3], [ok |-> FALSE, v |-> 0]}
TransactionResults == {"tx", "null", "throw"}
\* a settled getTransactionReceipt: null, a rejection, or a receipt of the
\* Base network: status 1 with its logs, or status 0 (reverted), without logs
ReceiptResults ==
  {[kind |-> k, status |-> Null, logs |-> <<>>] : k \in {"null", "throw"}}
    \cup {[kind |-> "receipt", status |-> Num(1), logs |-> ls] : ls \in LogSeqs}
    \cup {[kind |-> "receipt", status |-> Num(0), logs |-> <<>>]}
OwnerResults ==
  {[ok |-> TRUE, a |-> A_lower], [ok |-> TRUE, a |-> B_addr], [ok |-> FALSE, a |-> <<>>]}

\* ethers encodes tokenId as uint256 before the call: null and "" throw
Encodable(tokenId) ==
  \/ tokenId.t = "number"
  \/ tokenId.t = "string" /\ tokenId.s # <<>>

IdleReq ==
  [pc |-> "idle", wallet |-> Undef, tokenId |-> Undef, txHash |-> Undef,
   paymentOk |-> "false", ownsNFT |-> "false", transferVerified |-> "false",
   status |-> 0, error |-> "", flags |-> <<>>, calls |-> <<>>, scanned |-> FALSE,
   \* history of what the collaborators answered and of the replay set at start
   facilitator |-> "", balance |-> "", tx |-> "", receipt |-> "", shows |-> {},
   owner |-> <<>>, grantedBefore |-> FALSE, deniedBefore |-> FALSE]

Init ==
  /\ variant \in Variants
  /\ usedTxs = {}
  /\ req = [r \in Slots |-> IdleReq]
  /\ nreq = 0
  /\ granted = {}
  /\ denied = {}

Free(r) == req[r].pc \in {"idle", "done", "aborted"}

\* --------------------------------------------------------- handler pieces
\* !wallet || tokenId === undefined || !txHash
MissingField(wallet, tokenId, txHash) ==
  Falsy(wallet) \/ tokenId.t = "undefined" \/ Falsy(txHash)

HasNever(used, txHash) == FALSE
\* usedTxs.has(txHash)
Has(used, txHash) == txHash \in used

AddOnly(used, txHash) == {txHash}
\* usedTxs.add(txHash)
Add(used, txHash) == used \cup {txHash}

\* the error text of the replay rejection
AlreadyUsed(v) == IF v = "part_000" THEN "Tx already used" ELSE "Transaction already used"

\* data.success === true
SuccessFlag(result) == IF result = "success:true" THEN "true" ELSE "false"

\* balance && balance.toString() !== "0"
OwnsNFT(balance) ==
  IF balance = 0 THEN "0n"
  ELSE IF DecStr(balance) # <<"0">> THEN "true" ELSE "false"

\* balance.toString() !== "0" (part_000, second server)
OwnsNFTB(balance) == IF DecStr(balance) # <<"0">> THEN "true" ELSE "false"

\* balance > 0 (part_001)
OwnsNFT1(balance) == IF balance > 0 THEN "true" ELSE "false"

VerifiedAll(paymentOk, ownsNFT, transferVerified) ==
  IF Truthy(paymentOk) /\ Truthy(ownsNFT) /\ Truthy(transferVerified)
  THEN "true" ELSE "false"
\* paymentOk || ownsNFT || transferVerified
Verified(paymentOk, ownsNFT, transferVerified) ==
  JsOr(JsOr(paymentOk, ownsNFT), transferVerified)

\* receipt.status && receipt.status !== 1
StatusFailed(status) == ~Falsy(status) /\ status # Num(1)

\* the response is sent and the slot's request is over
Respond(r, rec, st, err, fl, used) ==
  /\ req' = [req EXCEPT ![r] =
               [rec EXCEPT !.pc = "done", !.status = st, !.error = err, !.flags = fl]]
  /\ usedTxs' = used
  /\ granted' = IF st = 200 THEN granted \cup {rec.txHash} ELSE granted
  /\ denied' = IF st = 402 THEN denied \cup {rec.txHash} ELSE denied

\* an exception leaves the async handler of part_000 (second server), which
\* has no try: Express 4 never answers, Express 5 answers 500
Escape(r, rec) ==
  /\ usedTxs' = usedTxs /\ granted' = granted /\ denied' = denied
  /\ \/ req' = [req EXCEPT ![r] = [rec EXCEPT !.pc = "aborted"]]
     \/ req' = [req EXCEPT ![r] =
                  [rec EXCEPT !.pc = "done", !.status = 500, !.error = "Internal Server Error"]]

\* the handler suspends on its next await
Await(r, rec, call) ==
  /\ req' = [req EXCEPT ![r] = [rec EXCEPT !.pc = call, !.calls = Append(@, call)]]
  /\ UNCHANGED <<usedTxs, granted, denied>>

DecideInsertIfAbsent(r, rec) ==
  LET verified == Verified(rec.paymentOk, rec.ownsNFT, rec.transferVerified)
      details == <<rec.paymentOk, rec.ownsNFT, rec.transferVerified>>
  IN IF ~Truthy(verified)
     THEN IF variant = "part_001"
          THEN Respond(r, rec, 402, "Payment required or invalid", <<>>, usedTxs)
          ELSE IF \A i \in 1..3 : Serializable(details[i])
               THEN Respond(r, rec, 402, "Payment required or invalid", details, usedTxs)
               ELSE Respond(r, rec, 500, "Server error", <<>>, usedTxs)
     ELSE IF Has(usedTxs, rec.txHash)
          THEN Respond(r, rec, 400, AlreadyUsed(variant), <<>>, usedTxs)
          ELSE Respond(r, rec, 200, "", <<>>, Add(usedTxs, rec.txHash))
\* from `const verified = ...` to the return of the handler
Decide(r, rec) ==
  LET verified == Verified(rec.paymentOk, rec.ownsNFT, rec.transferVerified)
      details == <<rec.paymentOk, rec.ownsNFT, rec.transferVerified>>
  IN IF ~Truthy(verified)
     THEN IF variant = "part_001"
          THEN Respond(r, rec, 402, "Payment required or invalid", <<>>, usedTxs)
          ELSE IF \A i \in 1..3 : Serializable(details[i])
               THEN Respond(r, rec, 402, "Payment required or invalid", details, usedTxs)
               \* res.json throws on the BigInt; the outer catch answers
               ELSE Respond(r, rec, 500, "Server error", <<>>, usedTxs)
     ELSE Respond(r, rec, 200, "", <<>>, Add(usedTxs, rec.txHash))

\* ---------------------------------------------- what a receipt's logs show
\* (the evidence as the event signatures define it, recorded as history)
CasePairs == {{"a", "A"}, {"b", "B"}, {"c", "C"}, {"d", "D"}, {"e", "E"}, {"f", "F"}, {"t", "T"}}
EqualIgnoringCase(x, y) ==
  /\ Len(x) = Len(y)
  /\ \A i \in 1..Len(x) : x[i] = y[i] \/ {x[i], y[i]} \in CasePairs

ByContract(log) == EqualIgnoringCase(log.address, CONTRACT_ADDRESS)
IsToken(k, tokenId) == CanToString(tokenId) /\ DecStr(k) = ToString(tokenId)

\* Transfer(from, to, tokenId)
ShowsTransfer(log, wallet, tokenId) ==
  /\ ByContract(log) /\ log.name = "Transfer"
  /\ EqualIgnoringCase(log.args[2].a, wallet.s)
  /\ IsToken(log.args[3].n, tokenId)

\* TransferSingle(operator, from, to, id, value)
ShowsTransferSingle(log, wallet, tokenId) ==
  /\ ByContract(log) /\ log.name = "TransferSingle"
  /\ EqualIgnoringCase(log.args[3].a, wallet.s)
  /\ IsToken(log.args[4].n, tokenId)
  /\ log.args[5].n # 0

\* TransferBatch(operator, from, to, ids, values)
ShowsTransferBatch(log, wallet, tokenId) ==
  /\ ByContract(log) /\ log.name = "TransferBatch"
  /\ EqualIgnoringCase(log.args[3].a, wallet.s)
  /\ \E j \in 1..Len(log.args[4].l) :
       /\ IsToken(log.args[4].l[j], tokenId)
       /\ j <= Len(log.args[5].l)
       /\ log.args[5].l[j] # 0

Shows(logs, wallet, tokenId) ==
  {n \in {"Transfer", "TransferSingle", "TransferBatch"} :
     \E i \in 1..Len(logs) :
       \/ n = "Transfer" /\ ShowsTransfer(logs[i], wallet, tokenId)
       \/ n = "TransferSingle" /\ ShowsTransferSingle(logs[i], wallet, tokenId)
       \/ n = "TransferBatch" /\ ShowsTransferBatch(logs[i], wallet, tokenId)}

\* ---------------------------------------------------------------- actions
\* a request that arrives when no other is in the server; such requests are
\* all put in the first slot (the slots are interchangeable)
NoOverlap(r) == r = 1 /\ \A q \in Slots \ {r} : req[q].pc = "idle"

\* POST /verifyOwnership arrives: the handler runs to its first await
Receive(r, wallet, tokenId, txHash) ==
  /\ Free(r)
  /\ nreq < MaxRequests
  /\ nreq' = nreq + 1
  /\ UNCHANGED variant
  /\ LET rec == [IdleReq EXCEPT !.wallet = wallet, !.tokenId = tokenId, !.txHash = txHash,
                                !.grantedBefore = txHash \in granted,
                                !.deniedBefore = txHash \in denied]
     IN IF MissingField(wallet, tokenId, txHash)
        THEN Respond(r, rec, 400, "Missing wallet, tokenId or txHash", <<>>, usedTxs)
        ELSE IF Has(usedTxs, txHash)
             THEN Respond(r, rec, 400, AlreadyUsed(variant), <<>>, usedTxs)
             ELSE Await(r, rec, "x402CheckPayment")

\* x402CheckPayment resolves (it catches its own errors); balanceOf is called
X402Return(r, result) ==
  /\ req[r].pc = "x402CheckPayment"
  /\ UNCHANGED <<variant, nreq>>
  /\ Await(r, [req[r] EXCEPT !.facilitator = result,
                             !.paymentOk = IF result = "throw" THEN "false"
                                           ELSE SuccessFlag(result)],
           "balanceOf")

\* contract.balanceOf settles
BalanceOfReturn(r, result) ==
  /\ req[r].pc = "balanceOf"
  /\ ~Encodable(req[r].tokenId) => ~result.ok
  /\ UNCHANGED <<variant, nreq>>
  /\ LET hist == [req[r] EXCEPT !.balance = IF ~result.ok THEN "throw"
                                              ELSE IF result.v = 0 THEN "zero" ELSE "nonzero"]
     IN CASE Full(variant) ->
               Await(r, [hist EXCEPT !.ownsNFT = IF result.ok THEN OwnsNFT(result.v) ELSE "false"],
                     "getTransaction")
          [] variant = "part_000" ->
               Await(r, [hist EXCEPT !.ownsNFT = IF result.ok THEN OwnsNFTB(result.v) ELSE "false"],
                     "getTransaction")
          [] variant = "part_001" ->
               IF result.ok
               THEN Decide(r, [hist EXCEPT !.ownsNFT = OwnsNFT1(result.v)])
               ELSE Respond(r, hist, 500, "Server error", <<>>, usedTxs)

\* provider.getTransaction settles
GetTransactionReturn(r, result) ==
  /\ req[r].pc = "getTransaction"
  /\ UNCHANGED <<variant, nreq>>
  /\ LET hist == [req[r] EXCEPT !.tx = result]
     IN CASE result = "tx" -> Await(r, hist, "getTransactionReceipt")
          [] result = "null" -> Decide(r, hist)
          [] result = "throw" -> IF Full(variant) THEN Decide(r, hist) ELSE Escape(r, hist)

\* provider.getTransactionReceipt settles
GetTransactionReceiptReturn(r, result) ==
  /\ req[r].pc = "getTransactionReceipt"
  /\ UNCHANGED <<variant, nreq>>
  /\ IF result.kind \in {"null", "throw"}
     THEN LET hist == [req[r] EXCEPT !.receipt = result.kind]
          IN IF result.kind = "throw" /\ ~Full(variant) THEN Escape(r, hist) ELSE Decide(r, hist)
     ELSE LET hist == [req[r] EXCEPT
                         !.receipt = "status:" \o Digit(result.status.n),
                         !.shows = Shows(result.logs, req[r].wallet, req[r].tokenId)]
              hit == ScanLogs(variant, result.logs, req[r].wallet, req[r].tokenId)
              scan == [hist EXCEPT !.scanned = TRUE,
                                   !.transferVerified = IF hit # 0 THEN "true" ELSE "false"]
          IN IF Full(variant)
             THEN IF StatusFailed(result.status) THEN Decide(r, hist)
                  ELSE IF hit # 0 THEN Decide(r, scan)
                       ELSE Await(r, scan, "ownerOf")
             ELSE Decide(r, scan)

OwnerOfReturnUncaught(r, result) ==
  /\ req[r].pc = "ownerOf"
  /\ ~Encodable(req[r].tokenId) => ~result.ok
  /\ UNCHANGED <<variant, nreq>>
  /\ LET hist == [req[r] EXCEPT !.owner = IF result.ok THEN result.a ELSE <<"throw">>]
     IN IF ~result.ok
        THEN /\ req' = [req EXCEPT ![r] = [hist EXCEPT !.pc = "aborted"]]
             /\ UNCHANGED <<usedTxs, granted, denied>>
        ELSE IF result.a # <<>> /\ toLowerCase(result.a) = toLowerCase(req[r].wallet.s)
             THEN Decide(r, [hist EXCEPT !.transferVerified = "true"])
             ELSE Decide(r, hist)
\* erc721Contract.ownerOf settles
OwnerOfReturn(r, result) ==
  /\ req[r].pc = "ownerOf"
  /\ ~Encodable(req[r].tokenId) => ~result.ok
  /\ UNCHANGED <<variant, nreq>>
  /\ LET hist == [req[r] EXCEPT !.owner = IF result.ok THEN result.a ELSE <<"throw">>]
     IN IF /\ result.ok
           /\ result.a # <<>>
           /\ toLowerCase(result.a) = toLowerCase(req[r].wallet.s)
        THEN Decide(r, [hist EXCEPT !.transferVerified = "true"])
        ELSE Decide(r, hist)

\* a request arrives after the previous one was answered
ReceiveNext(r, body) ==
  NoOverlap(r) /\ Receive(r, body.wallet, body.tokenId, body.txHash)

Next ==
  \/ \E r \in Slots, body \in Bodies : ReceiveNext(r, body)
  \/ \E r \in Slots, result \in FacilitatorResults : X402Return(r, result)
  \/ \E r \in Slots, result \in BalanceResults : BalanceOfReturn(r, result)
  \/ \E r \in Slots, result \in TransactionResults : GetTransactionReturn(r, result)
  \/ \E r \in Slots, result \in ReceiptResults : GetTransactionReceiptReturn(r, result)
  \/ \E r \in Slots, result \in OwnerResults : OwnerOfReturn(r, result)

\* the requests of a behaviour of Spec arrive one after the other
Spec == Init /\ [][Next]_vars

\* ------------------------------------------------- overlapping requests
\* Two requests in the server at once, for index.js: Node runs the piece of
\* one handler between two awaits, then a piece of any handler that can resume.
RaceSlots == {1, 2}
RaceBodies ==
  {[wallet |-> Str(A_upper), tokenId |-> Num(12), txHash |-> h] :
     h \in {Str(<<"0", "x", "T">>), Str(<<"0", "x", "t">>)}}
RaceFacilitatorResults == {"success:true", "throw"}
RaceBalanceResults == {b \in BalanceResults : b.v = 0}
RaceTransactionResults == {"tx", "null"}
RaceReceiptResults ==
  {[kind |-> "null", status |-> Null, logs |-> <<>>],
   [kind |-> "receipt", status |-> Num(1), logs |-> <<>>],
   [kind |-> "receipt", status |-> Num(1), logs |-> <<Transfer(C_lower, A_lower, 12)>>]}
RaceOwnerResults == {o \in OwnerResults : o.a # B_addr}

\* a request arrives, whether or not another is in the server; the second
\* slot is taken only when the first is occupied (the slots are interchangeable)
ReceiveAny(r, body) ==
  /\ r = 1 \/ ~Free(1)
  /\ Receive(r, body.wallet, body.tokenId, body.txHash)

InitIndexJs == Init /\ variant = "index.js"

NextRace ==
  \/ \E r \in RaceSlots, body \in RaceBodies : ReceiveAny(r, body)
  \/ \E r \in RaceSlots, result \in RaceFacilitatorResults : X402Return(r, result)
  \/ \E r \in RaceSlots, result \in RaceBalanceResults : BalanceOfReturn(r, result)
  \/ \E r \in RaceSlots, result \in RaceTransactionResults : GetTransactionReturn(r, result)
  \/ \E r \in RaceSlots, result \in RaceReceiptResults : GetTransactionReceiptReturn(r, result)
  \/ \E r \in RaceSlots, result \in RaceOwnerResults : OwnerOfReturn(r, result)

SpecRace == InitIndexJs /\ [][NextRace]_vars

\* ------------------------------------------------- every call settles
\* The handler of index.js, requests one after the other; the receipts hold
\* at most one log.
FairReceiptResults == {x \in ReceiptResults : Len(x.logs) <= 1}

NextFair ==
  \/ \E r \in Slots, body \in Bodies : ReceiveNext(r, body)
  \/ \E r \in Slots, result \in FacilitatorResults : X402Return(r, result)
  \/ \E r \in Slots, result \in BalanceResults : BalanceOfReturn(r, result)
  \/ \E r \in Slots, result \in TransactionResults : GetTransactionReturn(r, result)
  \/ \E r \in Slots, result \in FairReceiptResults : GetTransactionReceiptReturn(r, result)
  \/ \E r \in Slots, result \in OwnerResults : OwnerOfReturn(r, result)

\* every collaborator call that is awaited returns or throws: the promise the
\* handler awaits settles, and Node then resumes the handler
Settles(r) ==
  \/ \E result \in FacilitatorResults : X402Return(r, result)
  \/ \E result \in BalanceResults : BalanceOfReturn(r, result)
  \/ \E result \in TransactionResults : GetTransactionReturn(r, result)
  \/ \E result \in FairReceiptResults : GetTransactionReceiptReturn(r, result)
  \/ \E result \in OwnerResults : OwnerOfReturn(r, result)

SpecFair == InitIndexJs /\ [][NextFair]_vars /\ \A r \in Slots : WF_vars(Settles(r))

\* ------------------------------------------------------------ the claims
Done(r) == req[r].pc = "done"
\* a field that is absent or an empty value
Missing(v) == v.t \in {"undefined", "null"} \/ v = Str(<<>>)
AnyMissing(q) == Missing(q.wallet) \/ Missing(q.tokenId) \/ Missing(q.txHash)
\* a collaborator call of the request threw
Threw(q) ==
  \/ q.facilitator = "throw" \/ q.balance = "throw" \/ q.tx = "throw"
  \/ q.receipt = "throw" \/ q.owner = <<"throw">>
\* the request's step in which its response is sent
Responds(r) == req'[r].pc = "done" /\ (req'[r] # req[r] \/ nreq' # nreq)

\* C1 as stated: a request whose txHash was answered 200 before it started
\* is answered 400 "Transaction already used" and invokes no collaborator.
C1_Original ==
  \A r \in Slots :
    variant = "index.js" /\ req[r].pc # "idle" /\ req[r].grantedBefore =>
      /\ Done(r)
      /\ req[r].status = 400
      /\ req[r].error = "Transaction already used"
      /\ req[r].calls = <<>>

\* C1: a request whose txHash was answered 200 before it started is answered
\* 400 and invokes no collaborator, whatever the collaborators would answer;
\* the error is "Transaction already used" unless the request's wallet is
\* missing or its tokenId absent, which is reported first.
C1_ReplayRejected ==
  \A r \in Slots :
    variant = "index.js" /\ req[r].pc # "idle" /\ req[r].grantedBefore =>
      /\ Done(r)
      /\ req[r].status = 400
      /\ req[r].calls = <<>>
      /\ req[r].error =
           IF Missing(req[r].wallet) \/ req[r].tokenId.t = "undefined"
           THEN "Missing wallet, tokenId or txHash"
           ELSE "Transaction already used"

C1_Witness ==
  \E r \in Slots :
    /\ variant = "index.js" /\ Done(r) /\ req[r].grantedBefore
    /\ req[r].status = 400 /\ req[r].error = "Transaction already used"
    /\ req[r].txHash \in usedTxs

\* C2: usedTxs never loses an element; a response 200 adds the request's own
\* txHash and nothing else; a step with a response 400, 402 or 500, or with no
\* response, leaves usedTxs unchanged; and a txHash answered 402 is still
\* accepted later: a request with it and a facilitator success is answered 200.
C2_UsedTxsFrame ==
  /\ [][/\ usedTxs \subseteq usedTxs'
        /\ \A r \in Slots :
             Responds(r) =>
               IF req'[r].status = 200
               THEN usedTxs' = usedTxs \cup {req'[r].txHash}
               ELSE usedTxs' = usedTxs
        /\ (\A r \in Slots : ~Responds(r)) => usedTxs' = usedTxs]_vars
  /\ [](\A r \in Slots :
          /\ Done(r) /\ req[r].deniedBefore /\ ~req[r].grantedBefore
          /\ req[r].facilitator = "success:true" /\ variant = "index.js"
          => req[r].status = 200 /\ req[r].txHash \in usedTxs)

C2_Witness ==
  \E r \in Slots :
    /\ variant = "index.js" /\ Done(r) /\ req[r].deniedBefore
    /\ req[r].status = 200 /\ req[r].txHash \in usedTxs
    /\ Cardinality(usedTxs) = 2

\* C3: in index.js a request with its three fields present and a txHash not
\* used before is answered 200 when the facilitator answers success === true,
\* and when balanceOf answers a nonzero integer, whatever the other checks
\* answer or throw.
C3_DecisionRule ==
  \A r \in Slots :
    /\ variant = "index.js" /\ Done(r)
    /\ ~AnyMissing(req[r]) /\ ~req[r].grantedBefore
    /\ req[r].facilitator = "success:true" \/ req[r].balance = "nonzero"
    => req[r].status = 200

C3_Witness ==
  \E r \in Slots :
    /\ variant = "index.js" /\ Done(r) /\ req[r].status = 200
    /\ req[r].facilitator = "throw" /\ req[r].balance = "nonzero"
    /\ req[r].tx = "throw"

\* C4: a request in which wallet, tokenId or txHash is absent or empty is
\* answered 400 and no collaborator is invoked for it (so it never reaches the
\* step that adds to usedTxs).
C4_MissingFieldRejected ==
  \A r \in Slots :
    req[r].pc # "idle" /\ AnyMissing(req[r]) =>
      /\ Done(r)
      /\ req[r].status = 400
      /\ req[r].calls = <<>>

\* C5: in index.js, when the transaction is found and its receipt has status 1
\* and holds a log of the configured contract (addresses compared ignoring
\* case) that is a Transfer of the requested tokenId to the requested wallet
\* (ignoring case), transferVerified is true and the response is 200, whatever
\* the facilitator and balanceOf answer or throw.
C5_TransferLog ==
  \A r \in Slots :
    /\ variant = "index.js" /\ Done(r)
    /\ req[r].tx = "tx" /\ req[r].receipt = "status:1"
    /\ "Transfer" \in req[r].shows
    => req[r].transferVerified = "true" /\ req[r].status = 200

C5_Witness ==
  \E r \in Slots :
    /\ variant = "index.js" /\ Done(r) /\ req[r].status = 200
    /\ req[r].wallet = Str(A_upper)
    /\ req[r].receipt = "status:1" /\ req[r].shows = {"Transfer"}
    /\ req[r].facilitator = "success:false" /\ req[r].balance = "throw"
    /\ req[r].transferVerified = "true"

\* C6: in index.js, when the transaction is found and its receipt has status 1
\* and holds a log of the configured contract that is a TransferSingle of the
\* requested id to the requested wallet (ignoring case) with a nonzero value,
\* transferVerified is true and the response is 200.
C6_TransferSingleLog ==
  \A r \in Slots :
    /\ variant = "index.js" /\ Done(r)
    /\ req[r].tx = "tx" /\ req[r].receipt = "status:1"
    /\ "TransferSingle" \in req[r].shows
    => req[r].transferVerified = "true" /\ req[r].status = 200

\* C7: in index.js, when the transaction is found and its receipt has status 1
\* and holds a log of the configured contract that is a TransferBatch to the
\* requested wallet (ignoring case) with the requested tokenId in ids at a
\* position whose value is nonzero, transferVerified is true and the response
\* is 200.
C7_TransferBatchLog ==
  \A r \in Slots :
    /\ variant = "index.js" /\ Done(r)
    /\ req[r].tx = "tx" /\ req[r].receipt = "status:1"
    /\ "TransferBatch" \in req[r].shows
    => req[r].transferVerified = "true" /\ req[r].status = 200

\* C8: in index.js a request with its fields present and an unused txHash, for
\* which the facilitator does not report success, balanceOf answers zero or
\* throws, no log matches and ownerOf does not name the wallet, is answered 402
\* with the flags paymentOk, ownsNFT and transferVerified all the boolean false.
C8_NoEvidence402 ==
  \A r \in Slots :
    /\ variant = "index.js" /\ Done(r)
    /\ ~AnyMissing(req[r]) /\ ~req[r].grantedBefore
    /\ req[r].facilitator # "success:true"
    /\ req[r].balance \in {"zero", "throw"}
    /\ req[r].shows = {}
    /\ ~EqualIgnoringCase(req[r].owner, req[r].wallet.s)
    => req[r].status = 402 /\ req[r].flags = <<"false", "false", "false">>

\* C9: in index.js, for a request with its fields present, when getTransaction
\* finds no transaction, or getTransactionReceipt finds no receipt, or the
\* receipt's status is not 1 (the failed status 0), the transfer check ends
\* with transferVerified false: the logs are not scanned, ownerOf is not called
\* and the request is answered.
C9_ReceiptGating ==
  \A r \in Slots :
    /\ variant = "index.js" /\ req[r].pc # "idle" /\ ~AnyMissing(req[r])
    /\ \/ req[r].tx = "null"
       \/ req[r].receipt \in {"null", "status:0"}
    => /\ Done(r)
       /\ req[r].transferVerified = "false"
       /\ ~req[r].scanned
       /\ \A i \in 1..Len(req[r].calls) : req[r].calls[i] # "ownerOf"

\* C10: in every variant of the handler, a request with its fields present one
\* of whose collaborator calls threw is still answered, with 200 or 402 (the
\* case of a balance of zero, which C8 is about, left aside).
C10_FailuresLocal ==
  \A r \in Slots :
    /\ Free(r) /\ req[r].pc # "idle" /\ ~AnyMissing(req[r])
    /\ Threw(req[r])
    /\ req[r].balance # "zero"
    => Done(r) /\ req[r].status \in {200, 402}

\* C11: the membership test usedTxs.has is made only on arrival and the
\* insertion only at the end, with awaits in between: a request of index.js
\* that passed the test and whose facilitator reports success is answered 200
\* and its txHash is in usedTxs, also when another request has added the same
\* txHash meanwhile.  So two overlapping requests with one txHash that both
\* arrive before either is answered are both answered 200 (C11_Witness).
C11_CheckThenAct ==
  \A r \in RaceSlots :
    /\ Done(r) /\ req[r].calls # <<>>
    /\ req[r].facilitator = "success:true"
    => req[r].status = 200 /\ req[r].txHash \in usedTxs

C11_Witness ==
  \E r1, r2 \in RaceSlots :
    /\ r1 # r2
    /\ Done(r1) /\ Done(r2)
    /\ req[r1].txHash = req[r2].txHash
    /\ ~req[r1].grantedBefore /\ ~req[r2].grantedBefore
    /\ req[r1].calls # <<>> /\ req[r2].calls # <<>>
    /\ req[r1].status = 200 /\ req[r2].status = 200

\* ownerOf is among the collaborator calls the request has issued
CalledOwnerOf(q) == \E i \in 1..Len(q.calls) : q.calls[i] = "ownerOf"

\* C12: in index.js, for a request with its fields present, ownerOf is called
\* only after the transaction was found and every log of its successful
\* (status 1) receipt was scanned with no log showing the transfer; when it
\* returns an address equal to the wallet ignoring case transferVerified is
\* true, and when it throws or returns another address transferVerified is
\* false and the request is answered by the decision, not by an error.
C12_OwnerFallback ==
  \A r \in Slots :
    variant = "index.js" /\ ~AnyMissing(req[r]) /\ CalledOwnerOf(req[r]) =>
      /\ req[r].tx = "tx" /\ req[r].receipt = "status:1"
      /\ req[r].scanned /\ req[r].shows = {}
      /\ Done(r) /\ req[r].owner # <<"throw">>
           /\ EqualIgnoringCase(req[r].owner, req[r].wallet.s)
         => req[r].transferVerified = "true"
      /\ Done(r) /\ (req[r].owner = <<"throw">>
                     \/ ~EqualIgnoringCase(req[r].owner, req[r].wallet.s))
         => /\ req[r].transferVerified = "false"
            /\ req[r].status \in {200, 402} \/ req[r].balance = "zero"

\* the order in which one request issues its collaborator calls
CallOrder ==
  <<"x402CheckPayment", "balanceOf", "getTransaction", "getTransactionReceipt", "ownerOf">>
CallRank(c) == CHOOSE i \in 1..Len(CallOrder) : CallOrder[i] = c
InOrderOnce(calls) ==
  \A i, j \in 1..Len(calls) : i < j => CallRank(calls[i]) < CallRank(calls[j])
AwaitingCall(r) == \E i \in 1..Len(CallOrder) : req[r].pc = CallOrder[i]

\* C13: in index.js, when every awaited collaborator call settles, a request
\* that is in the handler is eventually answered; a request is never left
\* without an answer, its answer has status 400, 402, 200 or 500, the answered
\* request changes no more until the next request arrives in its place (one
\* response, no call after it), and the calls it issued are in the order
\* facilitator, balanceOf, getTransaction, getTransactionReceipt, ownerOf,
\* each at most once.
C13_OneResponse ==
  /\ [](\A r \in Slots : variant = "index.js" =>
          /\ req[r].pc # "aborted"
          /\ InOrderOnce(req[r].calls)
          /\ Done(r) => req[r].status \in {400, 402, 200, 500})
  /\ [][\A r \in Slots : variant = "index.js" /\ Done(r) /\ req'[r] # req[r]
          => nreq' = nreq + 1 /\ req'[r].calls \in {<<>>, <<"x402CheckPayment">>}]_vars
  /\ \A r \in Slots : (variant = "index.js" /\ AwaitingCall(r)) ~> Done(r)

C13_Witness ==
  \E r \in Slots :
    /\ variant = "index.js" /\ Done(r)
    /\ req[r].calls = CallOrder
    /\ req[r].owner = <<"throw">>
    /\ req[r].status = 402

\* C14: in index.js, of the requests that arrive one after the other, no two whose txHash
\* strings differ only in letter case (one on-chain transaction) are both
\* answered 200: the txHashes granted so far are pairwise different
\* transactions.
C14_OneGrantPerTransaction ==
  variant = "index.js" =>
    \A g, h \in granted : EqualIgnoringCase(g.s, h.s) => g = h

====
